---- MODULE Spec2Model ----
(***************************************************************************)
(* Model of generative/networks/nets/patchgan_discriminator.py:           *)
(* MultiScaleDiscriminator (a chain of NLayerDiscriminator sub-networks)   *)
(* and its forward pass.  A tensor is abstracted to its channel count,     *)
(* its spatial extents and the identity of the layer that produced it; a   *)
(* Convolution block is abstracted to its constructor arguments.           *)
(***************************************************************************)
EXTENDS Integers, Sequences, FiniteSets, TLC

\* ------------------------------------------------------------------ bounds
MaxNumD == 3
MaxLayers == 2
MaxListLen == 2
MaxSpatialDims == 2
MaxChannels == 2
MaxKernel == 4
MaxMinSize == 8
MaxExtra == 1

VARIABLES cfg, pc, net, err, result

vars == <<cfg, pc, net, err, result>>

\* ------------------------------------------------------------- arithmetic
RECURSIVE Pow2(_)
Pow2(n) == IF n <= 0 THEN 1 ELSE 2 * Pow2(n - 1)

CeilDiv(a, b) == (a + b - 1) \div b

RECURSIVE SeqsUpTo(_, _)
SeqsUpTo(S, n) ==
  IF n = 0 THEN {<<>>}
  ELSE LET shorter == SeqsUpTo(S, n - 1)
       IN shorter \cup {Append(s, e) : s \in {t \in shorter : Len(t) = n - 1}, e \in S}

\* --------------------------------------------------------- configurations
\* n_layers_D is either a single int or a list of ints (Python is untyped
\* here); the two cases are kept apart by the tag "kind".
LayerSpecs ==
  {[kind |-> "int", int |-> n, list |-> <<>>] : n \in 0..MaxLayers}
  \cup {[kind |-> "list", int |-> 0, list |-> s] :
          s \in SeqsUpTo(1..MaxLayers, MaxListLen) \ {<<>>}}

\* pooling_method = "none" stands for a call that does not pass the keyword.
Configs ==
  [num_D : 0..MaxNumD,
   n_layers_D : LayerSpecs,
   spatial_dims : 1..MaxSpatialDims,
   n_channels : 1..MaxChannels,
   in_channels : 1..MaxChannels,
   out_channels : 1..MaxChannels,
   kernel_size : 1..MaxKernel,
   minimum_size_im : 0..MaxMinSize,
   pooling_method : {"none", "max", "avg"}]

NoErr == [type |-> "none", index_D |-> 0, n_layers_D |-> 0, built |-> 0, layers |-> <<>>]

NoResult == [called |-> FALSE, gif |-> FALSE, x |-> <<>>, out |-> <<>>, features |-> <<>>]

\* ------------------------------------------------- NLayerDiscriminator.__init__
\* self.padding = tuple([int((kernel_size - 1) / 2)] * spatial_dims)
PaddingNone(kernel_size, spatial_dims) == [d \in 1..spatial_dims |-> 0]

Padding(kernel_size, spatial_dims) ==
  [d \in 1..spatial_dims |-> (kernel_size - 1) \div 2]

\* self.n_layers_D = n_layers_D * (index_D + 1)
EffectiveLayersFlat(n_layers_D, index_D) == n_layers_D

EffectiveLayers(n_layers_D, index_D) == n_layers_D * (index_D + 1)

\* output_size = float(minimum_size_im) / (2 ** (n_layers_D * (index_D + 1)));
\* output_size < 1   (exact for the magnitudes modelled)
TooSmallNever(minimum_size_im, n_layers_D, index_D) == FALSE

TooSmall(minimum_size_im, n_layers_D, index_D) ==
  minimum_size_im < Pow2(n_layers_D * (index_D + 1))

\* output_channels = output_channels * 2
NextChannelsSame(output_channels) == output_channels

NextChannels(output_channels) == output_channels * 2

\* Convolution(spatial_dims, kernel_size, in_channels, out_channels, ...,
\*             padding, strides): the block's arguments that decide shapes.
Convolution(index_D, name, spatial_dims, kernel_size, in_channels, out_channels, padding, strides) ==
  [D |-> index_D, name |-> name, spatial_dims |-> spatial_dims,
   kernel_size |-> kernel_size, in_channels |-> in_channels,
   out_channels |-> out_channels, padding |-> padding, strides |-> strides]

\* for l_ in range(self.n_layers_D): ... add_module("%d" % l_, layer)
RECURSIVE ConvLoop(_, _, _, _, _, _, _)
ConvLoop(c, index_D, l_, n, input_channels, output_channels, acc) ==
  IF l_ >= n THEN [layers |-> acc, input_channels |-> input_channels]
  ELSE ConvLoop(c, index_D, l_ + 1, n, output_channels, NextChannels(output_channels),
                Append(acc, Convolution(index_D, ToString(l_), c.spatial_dims, c.kernel_size,
                                        input_channels, output_channels,
                                        Padding(c.kernel_size, c.spatial_dims), 2)))

\* The whole constructor of one sub-discriminator: the result is either an
\* error (with the layers created up to the raise) or the module.
NLayerInit(c, index_D) ==
  IF c.n_layers_D.kind = "list"
  THEN \* line 156 repeats the list; line 158 raises TypeError on 2 ** list
       [err |-> [type |-> "TypeError", index_D |-> index_D, n_layers_D |-> 0,
                 built |-> 0, layers |-> <<>>],
        n_layers_D |-> 0, layers |-> <<>>]
  ELSE LET n == EffectiveLayers(c.n_layers_D.int, index_D) IN
       IF TooSmall(c.minimum_size_im, c.n_layers_D.int, index_D)
       THEN [err |-> [type |-> "AssertionError", index_D |-> index_D, n_layers_D |-> n,
                      built |-> 0, layers |-> <<>>],
             n_layers_D |-> n, layers |-> <<>>]
       ELSE LET loop == ConvLoop(c, index_D, 0, n, c.in_channels, c.n_channels * 2, <<>>) IN
            [err |-> NoErr,
             n_layers_D |-> n,
             layers |-> Append(loop.layers,
                               Convolution(index_D, "final_conv", c.spatial_dims, 1,
                                           loop.input_channels, c.out_channels,
                                           [d \in 1..c.spatial_dims |-> 0], 1))]

\* ---------------------------------------------- MultiScaleDiscriminator.__init__
\* for i in range(self.num_D): subnetD = NLayerDiscriminator(...);
\*     self.add_module("discriminator_%d" % i, subnetD)
RECURSIVE SubnetLoop(_, _, _)
SubnetLoop(c, i, acc) ==
  IF i >= c.num_D THEN [err |-> NoErr, net |-> acc]
  ELSE LET subnetD == NLayerInit(c, i) IN
       IF subnetD.err.type # "none"
       THEN [err |-> [subnetD.err EXCEPT !.built = Len(acc)], net |-> <<>>]
       ELSE SubnetLoop(c, i + 1,
                       Append(acc, [name |-> i, n_layers_D |-> subnetD.n_layers_D,
                                    layers |-> subnetD.layers]))

\* The signature has no pooling_method parameter: passing it is a TypeError
\* raised by the call itself.
MultiInit(c) ==
  IF c.pooling_method # "none"
  THEN [err |-> [type |-> "TypeError", index_D |-> 0, n_layers_D |-> 0,
                 built |-> 0, layers |-> <<>>],
        net |-> <<>>]
  ELSE SubnetLoop(c, 0, <<>>)

\* ------------------------------------------------------------ forward pass
\* Output of one Convolution block on tensor t: channels become out_channels,
\* every spatial extent d becomes floor((d + 2*padding - kernel_size) / strides) + 1.
ConvApply(layer, t) ==
  [by |-> <<layer.D, layer.name>>,
   channels |-> layer.out_channels,
   spatial |-> [d \in 1..Len(t.spatial) |->
                  ((t.spatial[d] + 2 * layer.padding[d] - layer.kernel_size)
                     \div layer.strides) + 1],
   ok |-> /\ t.ok
          /\ t.channels = layer.in_channels
          /\ \A d \in 1..Len(t.spatial) :
                t.spatial[d] + 2 * layer.padding[d] >= layer.kernel_size]

\* out = [x]; for submodel in self.children(): out.append(submodel(out[-1]))
RECURSIVE ChildrenLoop(_, _, _)
ChildrenLoop(layers, k, out) ==
  IF k > Len(layers) THEN out
  ELSE ChildrenLoop(layers, k + 1, Append(out, ConvApply(layers[k], out[Len(out)])))

\* NLayerDiscriminator.forward with get_intermediate_features=True: out[1:]
NLayerForwardFeatures(D, x) == Tail(ChildrenLoop(D.layers, 1, <<x>>))

\* NLayerDiscriminator.forward with get_intermediate_features=False: out[-1]
NLayerForwardOutput(D, x) ==
  LET out == ChildrenLoop(D.layers, 1, <<x>>) IN out[Len(out)]

\* out_D[:-1]
AllButLastKeepAll(out_D) == out_D

AllButLast(out_D) == SubSeq(out_D, 1, Len(out_D) - 1)

\* out_D[-1]
LastFirst(out_D) == out_D[1]

Last(out_D) == out_D[Len(out_D)]

\* for D in self.children(): ... append
RECURSIVE ForwardLoop(_, _, _, _, _, _)
ForwardLoop(children, k, x, gif, out, intermediate_features) ==
  IF k > Len(children) THEN [out |-> out, features |-> intermediate_features]
  ELSE IF gif
       THEN LET out_D == NLayerForwardFeatures(children[k], x) IN
            ForwardLoop(children, k + 1, x, gif, Append(out, Last(out_D)),
                        Append(intermediate_features, AllButLast(out_D)))
       ELSE ForwardLoop(children, k + 1, x, gif,
                        Append(out, NLayerForwardOutput(children[k], x)),
                        intermediate_features)

MultiForward(children, x, gif) == ForwardLoop(children, 1, x, gif, <<>>, <<>>)

\* Input tensors: cfg.in_channels channels, every spatial extent at least
\* minimum_size_im.
Inputs(c) ==
  {[by |-> <<-1, "input">>, channels |-> c.in_channels, spatial |-> s, ok |-> TRUE] :
     s \in [1..c.spatial_dims -> c.minimum_size_im..(c.minimum_size_im + MaxExtra)]}

\* ------------------------------------------------------------------ machine
Init ==
  /\ cfg \in Configs
  /\ pc = "new"
  /\ net = <<>>
  /\ err = NoErr
  /\ result = NoResult

\* MultiScaleDiscriminator(**cfg)
Construct ==
  /\ pc = "new"
  /\ LET r == MultiInit(cfg) IN
       /\ err' = r.err
       /\ net' = r.net
       /\ pc' = IF r.err.type = "none" THEN "constructed" ELSE "failed"
  /\ UNCHANGED <<cfg, result>>

\* net.forward(x, get_intermediate_features=gif)
Forward(x, gif) ==
  /\ pc = "constructed"
  /\ LET r == MultiForward(net, x, gif) IN
       result' = [called |-> TRUE, gif |-> gif, x |-> x.spatial,
                  out |-> r.out, features |-> r.features]
  /\ UNCHANGED <<cfg, pc, net, err>>

Next ==
  \/ Construct
  \/ \E x \in Inputs(cfg), gif \in BOOLEAN : Forward(x, gif)

Spec == Init /\ [][Next]_vars

\* ---------------------------------------------------------------- properties
\* Effective number of downsampling layers of the sub-discriminator at
\* position i (1-based) in uniform mode, written out from the configuration.
UniformCount(i) == cfg.n_layers_D.int * i

\* C1: after a successful construction every forward call returns exactly
\* num_D terminal outputs, and the k-th of them was produced by the
\* final_conv layer of the sub-discriminator built with index k-1, with or
\* without intermediate features.
C1_TerminalOutputsInOrder ==
  result.called =>
    /\ Len(result.out) = cfg.num_D
    /\ \A k \in 1..cfg.num_D : result.out[k].by = <<k - 1, "final_conv">>

C1_Witness ==
  /\ result.called /\ result.gif
  /\ cfg.num_D = 3 /\ cfg.n_layers_D.int = 1
  /\ result.out[3].by = <<2, "final_conv">>

\* C2 (as claimed): every spatial extent of scale i's terminal output is
\* floor(input extent / 2^(effective layer count of scale i)).
C2_FloorShape ==
  result.called =>
    \A i \in 1..Len(result.out) : \A d \in 1..cfg.spatial_dims :
       result.out[i].spatial[d] = result.x[d] \div Pow2(UniformCount(i))

\* C2 (amended): the forward pass succeeds and the extent is the floor of
\* input / 2^n when kernel_size is even and the ceiling when it is odd.
C2_FloorOrCeilShape ==
  result.called =>
    \A i \in 1..Len(result.out) :
       /\ result.out[i].ok
       /\ result.out[i].channels = cfg.out_channels
       /\ \A d \in 1..cfg.spatial_dims :
            result.out[i].spatial[d] =
              IF cfg.kernel_size % 2 = 0
              THEN result.x[d] \div Pow2(UniformCount(i))
              ELSE CeilDiv(result.x[d], Pow2(UniformCount(i)))

C2_Witness ==
  /\ result.called
  /\ cfg.kernel_size = 3 /\ cfg.num_D = 2 /\ cfg.n_layers_D.int = 1
  /\ \E d \in 1..cfg.spatial_dims :
        /\ result.x[d] % 4 # 0
        /\ result.out[2].spatial[d] = CeilDiv(result.x[d], 4)
        /\ result.out[2].spatial[d] # result.x[d] \div 4

C4_FeaturesIncludeTerminal ==
  (result.called /\ result.gif) =>
    \A i \in 1..Len(result.features) :
       Len(result.features[i]) = UniformCount(i) + 1

\* C5: in uniform mode the sub-discriminator built with index i has exactly
\* n_layers_D * (i + 1) stride-2 layers with the configured kernel followed
\* by exactly one kernel-1, stride-1 layer named final_conv.
C5_UniformLayerCount ==
  (pc = "constructed" /\ cfg.n_layers_D.kind = "int") =>
    /\ Len(net) = cfg.num_D
    /\ \A i \in 1..cfg.num_D :
         /\ net[i].name = i - 1
         /\ net[i].n_layers_D = cfg.n_layers_D.int * ((i - 1) + 1)
         /\ Len(net[i].layers) = cfg.n_layers_D.int * ((i - 1) + 1) + 1
         /\ \A l \in 1..(Len(net[i].layers) - 1) :
              /\ net[i].layers[l].strides = 2
              /\ net[i].layers[l].kernel_size = cfg.kernel_size
              /\ net[i].layers[l].name = ToString(l - 1)
         /\ LET final == net[i].layers[Len(net[i].layers)] IN
              /\ final.name = "final_conv"
              /\ final.strides = 1
              /\ final.kernel_size = 1

C5_Witness ==
  /\ pc = "constructed"
  /\ cfg.n_layers_D.kind = "int" /\ cfg.n_layers_D.int = 1 /\ cfg.num_D = 3
  /\ Len(net[3].layers) = 4

\* C6 (as claimed): with a per-scale list of length num_D (every entry small
\* enough for minimum_size_im) construction succeeds and scale i has list[i]
\* downsampling layers plus the terminal layer.
C6_ListLayerCount ==
  (/\ pc # "new"
   /\ cfg.pooling_method = "none"
   /\ cfg.n_layers_D.kind = "list"
   /\ Len(cfg.n_layers_D.list) = cfg.num_D
   /\ \A i \in 1..cfg.num_D : cfg.minimum_size_im >= Pow2(cfg.n_layers_D.list[i]))
  => /\ pc = "constructed"
     /\ Len(net) = cfg.num_D
     /\ \A i \in 1..cfg.num_D : Len(net[i].layers) = cfg.n_layers_D.list[i] + 1

\* First scale index whose effective layer count is too deep for
\* minimum_size_im (uniform mode).
Offending == {i \in 0..(cfg.num_D - 1) :
                cfg.minimum_size_im < Pow2(cfg.n_layers_D.int * (i + 1))}

FirstOffending == CHOOSE i \in Offending : \A j \in Offending : i <= j

\* C7: if some scale's minimum_size_im / 2^(effective layer count) is below 1,
\* construction fails with an AssertionError that names the offending scale
\* index and its effective layer count, raised before any layer of that
\* sub-discriminator exists; no network is obtained and forward never runs.
C7_TooSmallRaises ==
  (/\ pc # "new"
   /\ cfg.pooling_method = "none"
   /\ cfg.n_layers_D.kind = "int"
   /\ Offending # {})
  => /\ pc = "failed"
     /\ err.type = "AssertionError"
     /\ err.index_D = FirstOffending
     /\ err.n_layers_D = cfg.n_layers_D.int * (FirstOffending + 1)
     /\ err.layers = <<>>
     /\ net = <<>>
     /\ ~result.called

C7_Witness ==
  /\ pc = "failed"
  /\ err.type = "AssertionError"
  /\ cfg.num_D = 2 /\ cfg.n_layers_D.int = 2 /\ cfg.minimum_size_im = 8
  /\ err.index_D = 1 /\ err.n_layers_D = 4 /\ err.built = 1

\* C8 (as claimed): a per-scale list whose length differs from num_D makes
\* construction fail with an AssertionError before any sub-discriminator
\* is built.
C8_MismatchRaisesAssertion ==
  (/\ pc # "new"
   /\ cfg.pooling_method = "none"
   /\ cfg.n_layers_D.kind = "list"
   /\ cfg.num_D >= 1
   /\ Len(cfg.n_layers_D.list) # cfg.num_D)
  => /\ pc = "failed"
     /\ err.type = "AssertionError"
     /\ err.built = 0

\* C9 (as claimed): with a pooling method and a single integer layer count L
\* (minimum_size_im large enough for L + num_D - 1 halvings) construction
\* succeeds, scale i's terminal extent is input / 2^(L + i) and every
\* feature sequence has L + 1 entries.
C9_PoolingShapes ==
  (/\ pc # "new"
   /\ cfg.pooling_method \in {"max", "avg"}
   /\ cfg.n_layers_D.kind = "int"
   /\ cfg.num_D >= 1
   /\ cfg.minimum_size_im >= Pow2(cfg.n_layers_D.int + cfg.num_D - 1))
  => /\ pc = "constructed"
     /\ Len(net) = cfg.num_D
     /\ result.called =>
          /\ Len(result.out) = cfg.num_D
          /\ \A i \in 1..Len(result.out) : \A d \in 1..cfg.spatial_dims :
               result.out[i].spatial[d] =
                 result.x[d] \div Pow2(cfg.n_layers_D.int + (i - 1))
          /\ result.gif =>
               \A i \in 1..Len(result.features) :
                  Len(result.features[i]) = cfg.n_layers_D.int + 1

====
